---- MODULE Spec2Model ----
(***************************************************************************)
(* Model of the RAG pipeline's evaluation tracking: EvalTracker and Timer  *)
(* (src/app/evals.py), RAGEngine.query and its helpers                     *)
(* (src/app/rag_engine.py) and the Flask handlers that drive them          *)
(* (src/app/main.py).                                                      *)
(*                                                                         *)
(* Representation:                                                         *)
(*   - Python str is a TLA+ string; Optional[x] is <<>> (None) or <<x>>.   *)
(*   - The wall clock is counted in ticks; TicksPerCenti ticks make        *)
(*     0.01 ms, so an elapsed time is an integer number of ticks and a     *)
(*     value rounded to 2 decimals of a millisecond is an integer number   *)
(*     of hundredths of a millisecond.                                     *)
(*   - A distance is an integer number of 1/10000; a relevance score is an *)
(*     integer number of tenths.                                           *)
(*   - A JSON file is [kind, data]: kind "missing" (no file),              *)
(*     "invalid_json" (not parseable) or "json" (data is the document).    *)
(***************************************************************************)
EXTENDS Integers, Sequences, FiniteSets, TLC

VARIABLES
    rag_engine,     \* main._rag_engine: "None" or "ready"
    evals,          \* EvalTracker.evals of the live engine (in memory)
    evals_file,     \* ./evals/query_evals.json
    metrics_file,   \* ./evals/metrics.json
    collection,     \* the vector store's documents, in insertion order
    now,            \* the wall clock, in ticks
    issued,         \* query ids returned by query() since the engine was built
    last,           \* the call whose response is going out: what it was and gave
    timer,          \* a Timer object and the region it times
    threads         \* the EvalTracker calls in progress, one per request thread

vars == <<rag_engine, evals, evals_file, metrics_file, collection, now, issued, last,
          timer, threads>>

---------------------------------------------------------------------------
(* Bounds of the model *)

MaxClock == 1
MaxTimer == 6
MaxEvals == 2
MaxDocs == 1
MaxBatch == 3
MaxSources == 4
MaxIndexed == 12
MaxRequested == 12
TicksPerCenti == 3

(* Constants of the program *)

AnswerCap == 500
SourceCap == 100
PreviewCount == 3
TopSources == 3
MaxNResults == 10
DefaultNResults == 5

---------------------------------------------------------------------------
(* Values *)

None == <<>>
Some(x) == <<x>>

Min(a, b) == IF a < b THEN a ELSE b

\* Python's round(): to the nearest, ties to the even neighbour. n / d, d > 0.
RoundHalfEven(n, d) ==
    LET q == n \div d
        r == n % d
    IN  IF 2 * r < d THEN q
        ELSE IF 2 * r > d THEN q + 1
        ELSE IF q % 2 = 0 THEN q ELSE q + 1

\* round(elapsed * 1000, 2): ticks to hundredths of a millisecond.
RoundMs(elapsed) == RoundHalfEven(elapsed, TicksPerCenti)

\* The cut that also marks a string of exactly n characters.
Truncate_AtCap(s, n) == IF Len(s) >= n THEN SubSeq(s, 1, n) \o "..." ELSE s

\* s[:n] + "..." if len(s) > n else s
Truncate(s, n) == IF Len(s) > n THEN SubSeq(s, 1, n) \o "..." ELSE s

\* seq[:n]
Take(seq, n) == SubSeq(seq, 1, Min(n, Len(seq)))

\* str.strip() for blanks
RECURSIVE Strip(_)
Strip(s) ==
    IF Len(s) = 0 THEN s
    ELSE IF SubSeq(s, 1, 1) = " " THEN Strip(SubSeq(s, 2, Len(s)))
    ELSE IF SubSeq(s, Len(s), Len(s)) = " " THEN Strip(SubSeq(s, 1, Len(s) - 1))
    ELSE s

RECURSIVE SumOver(_, _)
SumOver(seq, field) ==
    IF seq = <<>> THEN 0 ELSE seq[1][field] + SumOver(Tail(seq), field)

RECURSIVE CountFeedback(_, _)
CountFeedback(seq, fb) ==
    IF seq = <<>> THEN 0
    ELSE (IF seq[1].feedback = fb THEN 1 ELSE 0) + CountFeedback(Tail(seq), fb)

---------------------------------------------------------------------------
(* Timer *)

\* Timer.__exit__: elapsed = time.time() - start_time
Elapsed(start_time, exit_time) == exit_time - start_time

\* Timer.__init__
Timer__init__ == [start_time |-> None, elapsed |-> 0]

\* Timer.__enter__ at the reading t
Timer__enter__(self, t) == [self EXCEPT !.start_time = Some(t)]

\* __exit__ that measures only a region that ended normally.
Timer__exit__SkipsOnError(self, t, exc) ==
    [self     |-> IF exc = None THEN [self EXCEPT !.elapsed = Elapsed(self.start_time[1], t)]
                  ELSE self,
     suppress |-> FALSE]

\* Timer.__exit__ at the reading t, exc the exception leaving the region (None
\* when it ended normally): the timer after it, and whether the return value
\* tells Python to suppress the exception. It returns None: never.
Timer__exit__(self, t, exc) ==
    [self     |-> [self EXCEPT !.elapsed = Elapsed(self.start_time[1], t)],
     suppress |-> FALSE]

\* No `with Timer()` block is being followed.
NoTimer == [pc |-> "none", self |-> Timer__init__, exc |-> None, exit_time |-> 0,
            propagated |-> FALSE]

\* No EvalTracker call is in progress.
NoThreads == <<>>

---------------------------------------------------------------------------
(* QueryEval and its JSON form *)

RequiredFields ==
    {"query_id", "timestamp", "question", "answer", "num_sources",
     "retrieval_time_ms", "generation_time_ms", "total_time_ms", "sources_preview"}

OptionalFields == {"feedback", "feedback_comment"}

\* f"q_{datetime.now().strftime('%Y%m%d_%H%M%S_%f')}" for the reading t
QueryId(t) == <<"q_", t>>

\* datetime.now().isoformat() for the reading t
IsoFormat(t) == <<"iso", t>>

\* QueryEval with the total taken as the sum of the two rounded parts.
QueryEval_SumsRoundedParts(query_id, timestamp, question, answer, sources, retrieval_time, generation_time) ==
    [query_id           |-> query_id,
     timestamp          |-> timestamp,
     question           |-> question,
     answer             |-> Truncate(answer, AnswerCap),
     num_sources        |-> Len(sources),
     retrieval_time_ms  |-> RoundMs(retrieval_time),
     generation_time_ms |-> RoundMs(generation_time),
     total_time_ms      |-> RoundMs(retrieval_time) + RoundMs(generation_time),
     sources_preview    |-> [i \in 1..Min(PreviewCount, Len(sources)) |->
                                Truncate(sources[i], SourceCap)],
     feedback           |-> None,
     feedback_comment   |-> None]

\* QueryEval(...) as log_query builds it
QueryEval(query_id, timestamp, question, answer, sources, retrieval_time, generation_time) ==
    [query_id           |-> query_id,
     timestamp          |-> timestamp,
     question           |-> question,
     answer             |-> Truncate(answer, AnswerCap),
     num_sources        |-> Len(sources),
     retrieval_time_ms  |-> RoundMs(retrieval_time),
     generation_time_ms |-> RoundMs(generation_time),
     total_time_ms      |-> RoundMs(retrieval_time + generation_time),
     sources_preview    |-> [i \in 1..Min(PreviewCount, Len(sources)) |->
                                Truncate(sources[i], SourceCap)],
     feedback           |-> None,
     feedback_comment   |-> None]

\* dataclasses.asdict(e)
asdict(e) == [k \in DOMAIN e |-> e[k]]

\* QueryEval(**d): TypeError unless the keys are the fields; the two optional
\* fields default to None.
FitsQueryEval(d) ==
    /\ RequiredFields \subseteq DOMAIN d
    /\ DOMAIN d \subseteq RequiredFields \cup OptionalFields

\* QueryEval(**d) that takes the required fields and drops the feedback.
FromDict_ForgetsFeedback(d) ==
    [k \in RequiredFields \cup OptionalFields |->
        IF k \in RequiredFields THEN d[k] ELSE None]

FromDict(d) ==
    [k \in RequiredFields \cup OptionalFields |->
        IF k \in DOMAIN d THEN d[k] ELSE None]

---------------------------------------------------------------------------
(* The two persisted JSON documents *)

MissingFile == [kind |-> "missing", data |-> <<>>]
InvalidJson == [kind |-> "invalid_json", data |-> <<>>]
JsonFile(d) == [kind |-> "json", data |-> d]

\* A JSON list whose entries are objects, but not QueryEval-shaped ones.
WrongShape == JsonFile(<<[question |-> "?", answer |-> "!"]>>)

\* What a write that raises leaves on disk: "open_fail" leaves the old file,
\* "dump_fail" leaves the truncated, unparseable start of the new one.
AfterFailedWrite(f, how) == IF how = "open_fail" THEN f ELSE InvalidJson

---------------------------------------------------------------------------
(* EvalTracker *)

\* _load_evals without its try/except: a file that cannot be read as records
\* makes the constructor raise.
_load_evals_Uncaught(f) ==
    IF f.kind = "missing" THEN [raised |-> FALSE, evals |-> <<>>]
    ELSE IF f.kind = "invalid_json" THEN [raised |-> TRUE, evals |-> <<>>]
    ELSE IF \A i \in DOMAIN f.data : FitsQueryEval(f.data[i])
         THEN [raised |-> FALSE,
               evals  |-> [i \in DOMAIN f.data |-> FromDict(f.data[i])]]
         ELSE [raised |-> TRUE, evals |-> <<>>]

\* EvalTracker._load_evals: [raised, evals]. Every exception of the read is
\* caught and gives the empty list.
_load_evals(f) ==
    IF f.kind = "missing" THEN [raised |-> FALSE, evals |-> <<>>]
    ELSE IF f.kind = "invalid_json" THEN [raised |-> FALSE, evals |-> <<>>]
    ELSE IF \A i \in DOMAIN f.data : FitsQueryEval(f.data[i])
         THEN [raised |-> FALSE,
               evals  |-> [i \in DOMAIN f.data |-> FromDict(f.data[i])]]
         ELSE [raised |-> FALSE, evals |-> <<>>]

\* EvalTracker._save_evals: the whole list, overwriting the file.
_save_evals(es) == JsonFile([i \in DOMAIN es |-> asdict(es[i])])

\* The metrics with the positive rate taken over all the records.
Metrics_RateOverAll(es, t) ==
    LET total_queries == Len(es)
        positive == CountFeedback(es, Some("positive"))
        negative == CountFeedback(es, Some("negative"))
        no_feedback == CountFeedback(es, None)
    IN  [last_updated           |-> IsoFormat(t),
         total_queries          |-> total_queries,
         avg_retrieval_time_ms  |-> RoundHalfEven(SumOver(es, "retrieval_time_ms"), total_queries),
         avg_generation_time_ms |-> RoundHalfEven(SumOver(es, "generation_time_ms"), total_queries),
         avg_total_time_ms      |-> RoundHalfEven(SumOver(es, "total_time_ms"), total_queries),
         avg_sources_per_query  |-> RoundHalfEven(100 * SumOver(es, "num_sources"), total_queries),
         feedback               |->
            [positive      |-> positive,
             negative      |-> negative,
             no_feedback   |-> no_feedback,
             positive_rate |-> IF positive + negative > 0
                               THEN RoundHalfEven(1000 * positive, total_queries)
                               ELSE 0]]

\* The metrics with the averages cut off after 2 decimals, not rounded.
Metrics_FloorsAverages(es, t) ==
    LET total_queries == Len(es)
        positive == CountFeedback(es, Some("positive"))
        negative == CountFeedback(es, Some("negative"))
        no_feedback == CountFeedback(es, None)
    IN  [last_updated           |-> IsoFormat(t),
         total_queries          |-> total_queries,
         avg_retrieval_time_ms  |-> SumOver(es, "retrieval_time_ms") \div total_queries,
         avg_generation_time_ms |-> SumOver(es, "generation_time_ms") \div total_queries,
         avg_total_time_ms      |-> SumOver(es, "total_time_ms") \div total_queries,
         avg_sources_per_query  |-> (100 * SumOver(es, "num_sources")) \div total_queries,
         feedback               |->
            [positive      |-> positive,
             negative      |-> negative,
             no_feedback   |-> no_feedback,
             positive_rate |-> IF positive + negative > 0
                               THEN RoundHalfEven(1000 * positive, positive + negative)
                               ELSE 0]]

\* The metrics dictionary _update_metrics builds, written at the reading t.
\* Averages are in hundredths, positive_rate in tenths.
Metrics(es, t) ==
    LET total_queries == Len(es)
        positive == CountFeedback(es, Some("positive"))
        negative == CountFeedback(es, Some("negative"))
        no_feedback == CountFeedback(es, None)
    IN  [last_updated           |-> IsoFormat(t),
         total_queries          |-> total_queries,
         avg_retrieval_time_ms  |-> RoundHalfEven(SumOver(es, "retrieval_time_ms"), total_queries),
         avg_generation_time_ms |-> RoundHalfEven(SumOver(es, "generation_time_ms"), total_queries),
         avg_total_time_ms      |-> RoundHalfEven(SumOver(es, "total_time_ms"), total_queries),
         avg_sources_per_query  |-> RoundHalfEven(100 * SumOver(es, "num_sources"), total_queries),
         feedback               |->
            [positive      |-> positive,
             negative      |-> negative,
             no_feedback   |-> no_feedback,
             positive_rate |-> IF positive + negative > 0
                               THEN RoundHalfEven(1000 * positive, positive + negative)
                               ELSE 0]]

\* EvalTracker._update_metrics: the metrics file after the call.
_update_metrics(es, mf, t) ==
    IF es = <<>> THEN mf ELSE JsonFile(Metrics(es, t))

EmptyMetrics == [total_queries |-> 0, message |-> "No queries yet"]

\* EvalTracker.get_metrics: [raised, value]
get_metrics(mf) ==
    IF mf.kind = "missing" THEN [raised |-> FALSE, value |-> EmptyMetrics]
    ELSE IF mf.kind = "invalid_json" THEN [raised |-> TRUE, value |-> None]
    ELSE [raised |-> FALSE, value |-> mf.data]

\* The tracker's state after a mutating call, and what the call gave.
Outcome(raised, ret, es, ef, mf) ==
    [raised |-> raised, ret |-> ret, evals |-> es, evals_file |-> ef, metrics_file |-> mf]

\* log_query that appends in memory and never writes the record file.
log_query_NoSave(es, ef, mf, question, answer, sources, retrieval_time, generation_time, t_id, t_ts, t_upd, w) ==
    LET eval_entry == QueryEval(QueryId(t_id), IsoFormat(t_ts), question, answer, sources,
                                retrieval_time, generation_time)
        es1 == Append(es, eval_entry)
    IN  Outcome(FALSE, QueryId(t_id), es1, ef, _update_metrics(es1, mf, t_upd))

\* log_query that formats a second clock reading for the id it returns.
log_query_ReturnsLaterId(es, ef, mf, question, answer, sources, retrieval_time, generation_time, t_id, t_ts, t_upd, w) ==
    LET eval_entry == QueryEval(QueryId(t_id), IsoFormat(t_ts), question, answer, sources,
                                retrieval_time, generation_time)
        es1 == Append(es, eval_entry)
    IN  Outcome(FALSE, QueryId(t_ts), es1, _save_evals(es1), _update_metrics(es1, mf, t_upd))

\* EvalTracker.log_query. t_id and t_ts are the two readings of datetime.now()
\* for the id and the timestamp, t_upd the one of _update_metrics; w says how
\* the writes go: "ok", or <<file, how>> for the write that raises.
log_query(es, ef, mf, question, answer, sources, retrieval_time, generation_time, t_id, t_ts, t_upd, w) ==
    LET query_id == QueryId(t_id)
        eval_entry == QueryEval(query_id, IsoFormat(t_ts), question, answer, sources,
                                retrieval_time, generation_time)
        es1 == Append(es, eval_entry)
    IN  IF w = "ok"
        THEN Outcome(FALSE, query_id, es1, _save_evals(es1), _update_metrics(es1, mf, t_upd))
        ELSE IF w[1] = "evals"
        THEN Outcome(TRUE, None, es1, AfterFailedWrite(ef, w[2]), mf)
        ELSE Outcome(TRUE, None, es1, _save_evals(es1), AfterFailedWrite(mf, w[2]))

\* The first index whose record has the id, 0 when there is none.
FirstMatch(es, query_id) ==
    IF \E i \in DOMAIN es : es[i].query_id = query_id
    THEN CHOOSE i \in DOMAIN es :
            /\ es[i].query_id = query_id
            /\ \A j \in 1..(i - 1) : es[j].query_id # query_id
    ELSE 0

\* add_feedback that marks every record with the id, not the first one only.
add_feedback_AllMatches(es, ef, mf, query_id, feedback, comment, t_upd, w) ==
    LET es1 == [i \in DOMAIN es |->
                    IF es[i].query_id = query_id
                    THEN [es[i] EXCEPT !.feedback = Some(feedback), !.feedback_comment = comment]
                    ELSE es[i]]
    IN  IF FirstMatch(es, query_id) = 0 THEN Outcome(FALSE, FALSE, es, ef, mf)
        ELSE Outcome(FALSE, TRUE, es1, _save_evals(es1), _update_metrics(es1, mf, t_upd))

\* add_feedback that keeps the old comment when none is given.
add_feedback_KeepsComment(es, ef, mf, query_id, feedback, comment, t_upd, w) ==
    LET i == FirstMatch(es, query_id)
        es1 == [es EXCEPT ![i].feedback = Some(feedback),
                          ![i].feedback_comment = IF comment = None THEN @ ELSE comment]
    IN  IF i = 0 THEN Outcome(FALSE, FALSE, es, ef, mf)
        ELSE Outcome(FALSE, TRUE, es1, _save_evals(es1), _update_metrics(es1, mf, t_upd))

\* add_feedback that saves the records and leaves the metrics file alone.
add_feedback_StaleMetrics(es, ef, mf, query_id, feedback, comment, t_upd, w) ==
    LET i == FirstMatch(es, query_id)
        es1 == [es EXCEPT ![i].feedback = Some(feedback), ![i].feedback_comment = comment]
    IN  IF i = 0 THEN Outcome(FALSE, FALSE, es, ef, mf)
        ELSE Outcome(FALSE, TRUE, es1, _save_evals(es1), mf)

\* EvalTracker.add_feedback
add_feedback(es, ef, mf, query_id, feedback, comment, t_upd, w) ==
    LET i == FirstMatch(es, query_id)
        es1 == [es EXCEPT ![i].feedback = Some(feedback), ![i].feedback_comment = comment]
    IN  IF i = 0 THEN Outcome(FALSE, FALSE, es, ef, mf)
        ELSE IF w = "ok"
        THEN Outcome(FALSE, TRUE, es1, _save_evals(es1), _update_metrics(es1, mf, t_upd))
        ELSE IF w[1] = "evals"
        THEN Outcome(TRUE, None, es1, AfterFailedWrite(ef, w[2]), mf)
        ELSE Outcome(TRUE, None, es1, _save_evals(es1), AfterFailedWrite(mf, w[2]))

\* seq[start:] for a Python index that may be negative or zero
SliceFrom(seq, start) ==
    LET n == Len(seq)
        lo == IF start < 0 THEN (IF n + start < 0 THEN 0 ELSE n + start) ELSE Min(start, n)
    IN  SubSeq(seq, lo + 1, n)

Reversed(seq) == [i \in 1..Len(seq) |-> seq[Len(seq) + 1 - i]]

\* EvalTracker.get_recent_evals: reversed(self.evals[-limit:])
get_recent_evals(es, limit) ==
    LET recent == SliceFrom(es, 0 - limit)
    IN  Reversed([i \in DOMAIN recent |-> asdict(recent[i])])

\* EvalTracker.export_evals: [raised, value]
export_evals(es, mf, t) ==
    LET m == get_metrics(mf)
    IN  IF m.raised THEN [raised |-> TRUE, value |-> None]
        ELSE [raised |-> FALSE,
              value  |-> [exported_at |-> IsoFormat(t),
                          total_evals |-> Len(es),
                          metrics     |-> m.value,
                          evals       |-> [i \in DOMAIN es |-> asdict(es[i])]]]

---------------------------------------------------------------------------
(* RAGEngine *)

NoDocsAnswer ==
    "I don't have any documents indexed yet. Please upload some documents first!"

\* RAGEngine.search: [raised, documents, distances]. The vector store and the
\* embedding call are outside the program: env.retr says whether they raise,
\* env.hits ranks the documents and env.dist gives the distance of each rank.
search(coll, n_results, env) ==
    IF Len(coll) = 0
    THEN [raised |-> FALSE, documents |-> <<>>, distances |-> <<>>]
    ELSE IF env.retr = "raise"
    THEN [raised |-> TRUE, documents |-> <<>>, distances |-> <<>>]
    ELSE LET k == Min(n_results, Len(coll))
         IN  [raised    |-> FALSE,
              documents |-> [i \in 1..k |-> coll[env.hits[i]]],
              distances |-> [i \in 1..k |-> env.dist[i]]]

\* generate_response that catches the model's error and answers with its text.
generate_response_Swallows(question, context, env) ==
    IF env.gen = "raise" THEN [raised |-> FALSE, text |-> "Error: generation failed"]
    ELSE [raised |-> FALSE, text |-> env.answer]

\* RAGEngine.generate_response: [raised, text]; the language model is outside
\* the program and answers env.answer or raises.
generate_response(question, context, env) ==
    IF env.gen = "raise" THEN [raised |-> TRUE, text |-> ""]
    ELSE [raised |-> FALSE, text |-> env.answer]

\* round((1 - d) * 100, 1), in tenths, for a distance in 1/10000
RelevanceScore(d) == RoundHalfEven(10000 - d, 10)

\* The dictionary query() returns when nothing was retrieved.
NoDocsResponse(retrieval_time) ==
    [answer      |-> NoDocsAnswer,
     sources     |-> <<>>,
     num_sources |-> 0,
     query_id    |-> None,
     metrics     |-> [retrieval_time_ms  |-> RoundMs(retrieval_time),
                      generation_time_ms |-> 0]]

\* The response with its sources cut like the persisted previews.
AnsweredResponse_PreviewSources(answer, relevant_docs, distances, query_id, retrieval_time, generation_time) ==
    [answer           |-> answer,
     sources          |-> [i \in 1..Min(TopSources, Len(relevant_docs)) |->
                                Truncate(relevant_docs[i], SourceCap)],
     num_sources      |-> Len(relevant_docs),
     query_id         |-> Some(query_id),
     relevance_scores |-> IF distances # <<>>
                          THEN [i \in 1..Min(TopSources, Len(distances)) |->
                                    RelevanceScore(distances[i])]
                          ELSE <<>>,
     metrics          |-> [retrieval_time_ms  |-> RoundMs(retrieval_time),
                           generation_time_ms |-> RoundMs(generation_time),
                           total_time_ms      |-> RoundMs(retrieval_time + generation_time)]]

\* The dictionary query() returns after a logged answer.
AnsweredResponse(answer, relevant_docs, distances, query_id, retrieval_time, generation_time) ==
    [answer           |-> answer,
     sources          |-> Take(relevant_docs, TopSources),
     num_sources      |-> Len(relevant_docs),
     query_id         |-> Some(query_id),
     relevance_scores |-> IF distances # <<>>
                          THEN [i \in 1..Min(TopSources, Len(distances)) |->
                                    RelevanceScore(distances[i])]
                          ELSE <<>>,
     metrics          |-> [retrieval_time_ms  |-> RoundMs(retrieval_time),
                           generation_time_ms |-> RoundMs(generation_time),
                           total_time_ms      |-> RoundMs(retrieval_time + generation_time)]]

\* What one run of RAGEngine.query gives and leaves behind. faults says what
\* the retriever and the generator did when they were called.
QueryResult(raised, resp, es, ef, mf, faults, gen_calls, log_calls, retrieved, clock) ==
    [raised |-> raised, resp |-> resp, evals |-> es, evals_file |-> ef,
     metrics_file |-> mf, faults |-> faults, gen_calls |-> gen_calls,
     log_calls |-> log_calls, retrieved |-> retrieved, clock |-> clock]

\* query() without its early return.
NothingRetrieved_Never(relevant_docs) == FALSE

\* `if not relevant_docs`
NothingRetrieved(relevant_docs) == relevant_docs = <<>>

\* RAGEngine.query. env.ts are the readings of the clock, in program order:
\* retrieval timer enter and exit, generation timer enter and exit, then the
\* three datetime.now() of log_query and _update_metrics.
query(es, ef, mf, coll, question, n_results, env) ==
    LET ts == env.ts
        found == search(coll, n_results, env)
        retrieval_time == Elapsed(ts[1], ts[2])
        relevant_docs == found.documents
        generated == generate_response(question, relevant_docs, env)
        generation_time == Elapsed(ts[3], ts[4])
        logged == log_query(es, ef, mf, question, generated.text, relevant_docs,
                            retrieval_time, generation_time, ts[5], ts[6], ts[7], env.w)
        retrieved == [retr |-> IF coll = <<>> THEN "none" ELSE env.retr, gen |-> "none"]
        answered == [retr |-> retrieved.retr, gen |-> env.gen]
    IN  IF found.raised
        THEN QueryResult(TRUE, None, es, ef, mf, retrieved, 0, 0, 0, ts[2])
        ELSE IF NothingRetrieved(relevant_docs)
        THEN QueryResult(FALSE, NoDocsResponse(retrieval_time), es, ef, mf, retrieved,
                         0, 0, 0, ts[2])
        ELSE IF generated.raised
        THEN QueryResult(TRUE, None, es, ef, mf, answered, 1, 0, Len(relevant_docs), ts[4])
        ELSE IF logged.raised
        THEN QueryResult(TRUE, None, logged.evals, logged.evals_file, logged.metrics_file,
                         answered, 1, 1, Len(relevant_docs), ts[7])
        ELSE QueryResult(FALSE,
                         AnsweredResponse(generated.text, relevant_docs, found.distances,
                                          logged.ret, retrieval_time, generation_time),
                         logged.evals, logged.evals_file, logged.metrics_file,
                         answered, 1, 1, Len(relevant_docs), ts[7])

---------------------------------------------------------------------------
(* Inputs of the handlers and of the world around them *)

QuestionInputs == {"What is the capital of France?", " "}
NResultInputs == {1, 11}
Answers == {"Paris."}
Chunks == {"Paris is the capital of France."}
Distances == {2500}
FeedbackInputs == {"positive", "negative", "neutral"}
Comments == {Some("helpful")}
QueryIdInputs == {QueryId(t) : t \in 0..MaxClock} \cup {<<"nonexistent-id">>}
LimitInputs == 0..(MaxEvals + 1)

\* The non-decreasing sequences of n clock readings in from..upto.
RECURSIVE ReadingsUpTo(_, _, _)
ReadingsUpTo(from, n, upto) ==
    IF n = 0 THEN {<<>>}
    ELSE UNION {{<<t>> \o r : r \in ReadingsUpTo(t, n - 1, upto)} : t \in from..upto}

Readings(from, n) == ReadingsUpTo(from, n, MaxClock)

\* The rankings the vector store may give to k documents.
Rankings(k) == {p \in [1..k -> 1..k] : \A i, j \in 1..k : p[i] = p[j] => i = j}

\* Distances by rank: closest first.
DistanceLists(k) ==
    {d \in [1..k -> Distances] : \A i, j \in 1..k : i <= j => d[i] <= d[j]}

\* How the writes of a mutating call go: Spec has a disk that works.
WriteOutcomes == {"ok"}

\* The clock readings one run of query() takes: two when it ends after the
\* retrieval, four when it ends after the generation, seven when it logs. The
\* readings a run never takes repeat its last one.
RECURSIVE Pad(_, _)
Pad(ts, n) == IF Len(ts) >= n THEN ts ELSE Pad(Append(ts, ts[Len(ts)]), n)

RunReadings(retr, gen) ==
    IF collection = <<>> \/ retr = "raise" THEN {Pad(ts, 7) : ts \in Readings(now, 2)}
    ELSE IF gen = "raise" THEN {Pad(ts, 7) : ts \in Readings(now, 4)}
    ELSE Readings(now, 7)

\* What the world outside the program does during one run of query().
QueryEnv(retr, gen, answer, hits, dist, ts, w) ==
    [retr |-> retr, gen |-> gen, answer |-> answer, hits |-> hits, dist |-> dist,
     ts |-> ts, w |-> w]

\* The handler passing the caller's count on as it came.
ClampNResults_Unclamped(n) == n

\* The query handler's n_results = min(data.get('n_results', 5), 10)
ClampNResults(n) == Min(n, MaxNResults)

---------------------------------------------------------------------------
(* The record of the last call *)

NoCtor == [built |-> FALSE, file |-> "none", raised |-> FALSE, loaded |-> 0]

\* op: the handler; http: its status; ctor: what building the engine met, when
\* this call built it; raised: whether the core call raised; arg, ret: its
\* arguments and result; faults: what the retriever and the generator did;
\* gen_calls, log_calls: calls of generate_response and log_query; retrieved:
\* the number of passages retrieved.
Call(op, http, ctor, raised, arg, ret, faults, gen_calls, log_calls, retrieved) ==
    [op |-> op, http |-> http, ctor |-> ctor, raised |-> raised, arg |-> arg,
     ret |-> ret, faults |-> faults, gen_calls |-> gen_calls,
     log_calls |-> log_calls, retrieved |-> retrieved]

NoFaults == [retr |-> "none", gen |-> "none"]

NoCall == Call("none", 0, NoCtor, FALSE, None, None, NoFaults, 0, 0, 0)

\* The arguments of one run of query() and the two elapsed times its timers
\* measured.
QueryArg(question, n_results, ts) ==
    [question |-> question, n_results |-> n_results,
     retrieval_time |-> Elapsed(ts[1], ts[2]),
     generation_time |-> Elapsed(ts[3], ts[4])]

\* Requests are served one at a time: a handler starts when no response is
\* pending.
Idle == last.op = "none"

---------------------------------------------------------------------------
(* main.get_rag_engine: the engine, and with it the EvalTracker, is built by *)
(* the first handler that asks for it.                                      *)

Booting == rag_engine = "None"

\* What _load_evals meets on disk.
FileShape(f) ==
    IF f.kind # "json" THEN f.kind
    ELSE IF \A i \in DOMAIN f.data : FitsQueryEval(f.data[i]) THEN "list"
    ELSE "bad_shape"

\* EvalTracker.__init__: self.evals = self._load_evals()
Built == _load_evals(evals_file)

CtorInfo ==
    IF Booting
    THEN [built |-> TRUE, file |-> FileShape(evals_file), raised |-> Built.raised,
          loaded |-> Len(Built.evals)]
    ELSE NoCtor

CtorFails == Booting /\ Built.raised

\* The record list and the issued ids of the engine get_rag_engine() returns.
EngineEvals == IF Booting THEN Built.evals ELSE evals
EngineIssued == IF Booting THEN {} ELSE issued

\* A handler whose get_rag_engine() raised: its except clause answers 500 and
\* _rag_engine stays None.
EngineFailed(op) ==
    /\ last' = Call(op, 500, CtorInfo, TRUE, None, None, NoFaults, 0, 0, 0)
    /\ UNCHANGED <<rag_engine, evals, evals_file, metrics_file, collection, now, issued>>

\* A handler that answers before it asks for the engine.
Rejected(op) ==
    /\ last' = Call(op, 400, NoCtor, FALSE, None, None, NoFaults, 0, 0, 0)
    /\ UNCHANGED <<rag_engine, evals, evals_file, metrics_file, collection, now, issued>>

---------------------------------------------------------------------------
(* State machine *)

Init ==
    /\ rag_engine = "None"
    /\ evals = <<>>
    /\ evals_file = MissingFile
    /\ metrics_file = MissingFile
    /\ collection = <<>>
    /\ now = 0
    /\ issued = {}
    /\ last = NoCall
    /\ timer = NoTimer
    /\ threads = NoThreads

\* POST /api/query
Query ==
    /\ Idle
    /\ UNCHANGED <<timer, threads>>
    /\ \E question \in QuestionInputs :
        LET q == Strip(question)
        IN  IF q = "" THEN Rejected("query")
            ELSE IF CtorFails THEN EngineFailed("query")
            ELSE \E n \in NResultInputs, retr \in {"ok", "raise"}, gen \in {"ok", "raise"} :
                /\ collection = <<>> => retr = "ok" /\ gen = "ok"
                /\ retr = "raise" => gen = "ok"
                /\ (collection # <<>> /\ retr = "ok" /\ gen = "ok")
                        => Len(EngineEvals) < MaxEvals
                /\ \E answer \in Answers, hits \in Rankings(Len(collection)),
                      dist \in DistanceLists(Len(collection)), w \in WriteOutcomes,
                      ts \in RunReadings(retr, gen) :
                    LET n_results == ClampNResults(n)
                        env == QueryEnv(retr, gen, answer, hits, dist, ts, w)
                        r == query(EngineEvals, evals_file, metrics_file, collection,
                                   q, n_results, env)
                    IN  /\ rag_engine' = "ready"
                        /\ evals' = r.evals
                        /\ evals_file' = r.evals_file
                        /\ metrics_file' = r.metrics_file
                        /\ now' = r.clock
                        /\ issued' = IF r.raised \/ r.resp.query_id = None
                                     THEN EngineIssued
                                     ELSE EngineIssued \cup {r.resp.query_id[1]}
                        /\ last' = Call("query", IF r.raised THEN 500 ELSE 200, CtorInfo,
                                        r.raised, QueryArg(q, n_results, ts), r.resp,
                                        r.faults, r.gen_calls, r.log_calls, r.retrieved)
                        /\ UNCHANGED collection

\* POST /api/feedback
Feedback ==
    /\ Idle
    /\ UNCHANGED <<timer, threads>>
    /\ \E feedback \in FeedbackInputs :
        IF feedback \notin {"positive", "negative"} THEN Rejected("feedback")
        ELSE IF CtorFails THEN EngineFailed("feedback")
        ELSE \E query_id \in QueryIdInputs :
            LET found == FirstMatch(EngineEvals, query_id) # 0
            IN  \E comment \in IF found THEN Comments ELSE {None},
                   t \in IF found THEN now..MaxClock ELSE {now},
                   w \in WriteOutcomes :
                LET r == add_feedback(EngineEvals, evals_file, metrics_file, query_id,
                                      feedback, comment, t, w)
                IN  /\ rag_engine' = "ready"
                    /\ evals' = r.evals
                    /\ evals_file' = r.evals_file
                    /\ metrics_file' = r.metrics_file
                    /\ now' = t
                    /\ issued' = EngineIssued
                    /\ last' = Call("feedback",
                                    IF r.raised THEN 500 ELSE IF r.ret THEN 200 ELSE 404,
                                    CtorInfo, r.raised, <<query_id, feedback>>, r.ret,
                                    NoFaults, 0, 0, 0)
                    /\ UNCHANGED collection

\* GET /api/metrics
GetMetrics ==
    /\ Idle
    /\ UNCHANGED <<timer, threads>>
    /\ IF CtorFails THEN EngineFailed("metrics")
       ELSE LET m == get_metrics(metrics_file)
            IN  /\ rag_engine' = "ready"
                /\ evals' = EngineEvals
                /\ issued' = EngineIssued
                /\ last' = Call("metrics", IF m.raised THEN 500 ELSE 200, CtorInfo,
                                m.raised, None, m.value, NoFaults, 0, 0, 0)
                /\ UNCHANGED <<evals_file, metrics_file, collection, now>>

\* GET /api/evals
RecentEvals ==
    /\ Idle
    /\ UNCHANGED <<timer, threads>>
    /\ \E limit \in LimitInputs :
        IF CtorFails THEN EngineFailed("evals")
        ELSE LET m == get_metrics(metrics_file)
                 recent == get_recent_evals(EngineEvals, limit)
             IN  /\ rag_engine' = "ready"
                 /\ evals' = EngineEvals
                 /\ issued' = EngineIssued
                 /\ last' = Call("evals", IF m.raised THEN 500 ELSE 200, CtorInfo,
                                 m.raised, limit,
                                 IF m.raised THEN None
                                 ELSE [evals |-> recent, metrics |-> m.value],
                                 NoFaults, 0, 0, 0)
                 /\ UNCHANGED <<evals_file, metrics_file, collection, now>>

\* POST /api/upload: add_documents embeds the chunks one by one, then adds them
\* all; an embedding that raises leaves the collection as it was.
Upload ==
    /\ Idle
    /\ UNCHANGED <<timer, threads>>
    /\ \E chunk \in Chunks, count \in 1..MaxDocs, embed \in {"ok", "raise"} :
        LET chunks == [i \in 1..count |-> chunk]
        IN  /\ Len(collection) + count <= MaxDocs
            /\ IF CtorFails THEN EngineFailed("upload")
               ELSE /\ rag_engine' = "ready"
                    /\ evals' = EngineEvals
                    /\ issued' = EngineIssued
                    /\ collection' = IF embed = "ok" THEN collection \o chunks
                                     ELSE collection
                    /\ last' = Call("upload", IF embed = "ok" THEN 200 ELSE 500, CtorInfo,
                                    embed # "ok", count,
                                    IF embed = "ok" THEN Some(count) ELSE None,
                                    NoFaults, 0, 0, 0)
                    /\ UNCHANGED <<evals_file, metrics_file, now>>

\* A clear that also starts the evaluation over: no records, no files.
Clear_ResetsEvals ==
    /\ Idle
    /\ UNCHANGED <<timer, threads>>
    /\ IF CtorFails THEN EngineFailed("clear")
       ELSE /\ rag_engine' = "ready"
            /\ evals' = <<>>
            /\ evals_file' = MissingFile
            /\ metrics_file' = MissingFile
            /\ issued' = {}
            /\ collection' = <<>>
            /\ last' = Call("clear", 200, CtorInfo, FALSE, None, Some(0), NoFaults, 0, 0, 0)
            /\ UNCHANGED now

\* POST /api/clear: RAGEngine.clear_collection
Clear ==
    /\ Idle
    /\ UNCHANGED <<timer, threads>>
    /\ IF CtorFails THEN EngineFailed("clear")
       ELSE /\ rag_engine' = "ready"
            /\ evals' = EngineEvals
            /\ issued' = EngineIssued
            /\ collection' = <<>>
            /\ last' = Call("clear", 200, CtorInfo, FALSE, None, Some(0), NoFaults, 0, 0, 0)
            /\ UNCHANGED <<evals_file, metrics_file, now>>

\* The process ends; the next request builds a new engine from the files.
Restart ==
    /\ Idle
    /\ UNCHANGED <<timer, threads>>
    /\ rag_engine = "ready"
    /\ rag_engine' = "None"
    /\ evals' = <<>>
    /\ issued' = {}
    /\ UNCHANGED <<evals_file, metrics_file, collection, now, last>>

\* The record file is lost or damaged while the process is down.
DamageEvalsFile ==
    /\ Idle
    /\ UNCHANGED <<timer, threads>>
    /\ rag_engine = "None"
    /\ \E f \in {MissingFile, InvalidJson, WrongShape} :
        /\ evals_file # f
        /\ evals_file' = f
        /\ UNCHANGED <<rag_engine, evals, metrics_file, collection, now, issued, last>>

\* The response of the last call has gone out; the server takes the next request.
Respond ==
    /\ ~Idle
    /\ UNCHANGED <<timer, threads>>
    /\ last' = NoCall
    /\ UNCHANGED <<rag_engine, evals, evals_file, metrics_file, collection, now, issued>>

Next ==
    \/ Query
    \/ Feedback
    \/ GetMetrics
    \/ RecentEvals
    \/ Upload
    \/ Clear
    \/ Restart
    \/ DamageEvalsFile
    \/ Respond

Spec == Init /\ [][Next]_vars

---------------------------------------------------------------------------
(* The arithmetic of the timings: query() on a fresh tracker over one indexed *)
(* chunk, for every four readings the two timers may take up to MaxTimer.    *)

InitTiming ==
    /\ rag_engine = "ready"
    /\ evals = <<>>
    /\ evals_file = MissingFile
    /\ metrics_file = MissingFile
    /\ collection \in {<<chunk>> : chunk \in Chunks}
    /\ now = 0
    /\ issued = {}
    /\ \E ts \in ReadingsUpTo(0, 4, MaxTimer) :
            last = Call("timing", 0, NoCtor, FALSE, ts, None, NoFaults, 0, 0, 0)
    /\ timer = NoTimer
    /\ threads = NoThreads

TimedQuery ==
    /\ last.op = "timing"
    /\ UNCHANGED <<timer, threads>>
    /\ \E question \in QuestionInputs \ {" "}, answer \in Answers,
          dist \in DistanceLists(Len(collection)) :
        LET ts == Pad(last.arg, 7)
            env == QueryEnv("ok", "ok", answer, <<1>>, dist, ts, "ok")
            r == query(evals, evals_file, metrics_file, collection, question,
                       DefaultNResults, env)
        IN  /\ evals' = r.evals
            /\ evals_file' = r.evals_file
            /\ metrics_file' = r.metrics_file
            /\ now' = r.clock
            /\ issued' = issued \cup {r.resp.query_id[1]}
            /\ last' = Call("query", 200, NoCtor, r.raised,
                            QueryArg(question, DefaultNResults, ts), r.resp, r.faults,
                            r.gen_calls, r.log_calls, r.retrieved)
            /\ UNCHANGED <<rag_engine, collection>>

NextTiming == TimedQuery

SpecTiming == InitTiming /\ [][NextTiming]_vars

---------------------------------------------------------------------------
(* A `with Timer() as t:` block, as RAGEngine.query runs two of them: the     *)
(* clock advances, the block is entered, its body returns or raises, and      *)
(* __exit__ runs on the way out.                                              *)

RegionExceptions == {Some("RuntimeError")}

InitTimer ==
    /\ rag_engine = "ready"
    /\ evals = <<>>
    /\ evals_file = MissingFile
    /\ metrics_file = MissingFile
    /\ collection = <<>>
    /\ now = 0
    /\ issued = {}
    /\ last = NoCall
    /\ timer = [NoTimer EXCEPT !.pc = "new"]
    /\ threads = NoThreads

\* time passes
TimerTick ==
    /\ now < MaxTimer
    /\ now' = now + 1
    /\ UNCHANGED <<rag_engine, evals, evals_file, metrics_file, collection, issued, last,
                   timer, threads>>

\* `with Timer() as t:` is entered
TimerEnter ==
    /\ timer.pc = "new"
    /\ timer' = [timer EXCEPT !.pc = "inside", !.self = Timer__enter__(timer.self, now)]
    /\ UNCHANGED <<rag_engine, evals, evals_file, metrics_file, collection, now, issued,
                   last, threads>>

\* The body ends, normally or by raising exc, and Python calls __exit__; the
\* exception goes on to the code around the block unless __exit__ suppresses it.
TimerLeave ==
    /\ timer.pc = "inside"
    /\ \E exc \in {None} \cup RegionExceptions :
        LET r == Timer__exit__(timer.self, now, exc)
        IN  timer' = [pc         |-> "left",
                      self       |-> r.self,
                      exc        |-> exc,
                      exit_time  |-> now,
                      propagated |-> exc # None /\ ~r.suppress]
    /\ UNCHANGED <<rag_engine, evals, evals_file, metrics_file, collection, now, issued,
                   last, threads>>

NextTimer ==
    \/ TimerTick
    \/ TimerEnter
    \/ TimerLeave

SpecTimer == InitTimer /\ [][NextTimer]_vars

---------------------------------------------------------------------------
(* The aggregation: one EvalTracker, called directly. Queries with chosen     *)
(* timings and source counts are logged one after the other and feedback is   *)
(* given to any of them; every call rewrites the metrics snapshot.            *)

\* Elapsed times of a phase, in hundredths of a millisecond: 10, 20 and 30 ms.
TimingInputs == {1000, 2000, 3000}

\* The elapsed time of the generation, in hundredths of a millisecond.
GenerationInput == 500

SourceLists == {[i \in 1..k |-> chunk] : k \in 1..2, chunk \in Chunks}

InitMetrics ==
    /\ rag_engine = "ready"
    /\ evals = <<>>
    /\ evals_file = MissingFile
    /\ metrics_file = MissingFile
    /\ collection = <<>>
    /\ now = 0
    /\ issued = {}
    /\ last = NoCall
    /\ timer = NoTimer
    /\ threads = NoThreads

\* EvalTracker.log_query with a retrieval that took ms hundredths
LogTimed ==
    /\ Len(evals) < MaxBatch
    /\ \E ms \in TimingInputs, sources \in SourceLists, question \in QuestionInputs \ {" "},
          answer \in Answers :
        LET r == log_query(evals, evals_file, metrics_file, question, answer, sources,
                           ms * TicksPerCenti, GenerationInput * TicksPerCenti,
                           now, now, now, "ok")
        IN  /\ evals' = r.evals
            /\ evals_file' = r.evals_file
            /\ metrics_file' = r.metrics_file
            /\ issued' = issued \cup {r.ret}
            /\ now' = now + 1
    /\ UNCHANGED <<rag_engine, collection, last, timer, threads>>

\* EvalTracker.add_feedback on a logged query
Rate ==
    /\ \E i \in DOMAIN evals, feedback \in {"positive", "negative"} :
        LET r == add_feedback(evals, evals_file, metrics_file, evals[i].query_id,
                              feedback, None, now, "ok")
        IN  /\ evals' = r.evals
            /\ evals_file' = r.evals_file
            /\ metrics_file' = r.metrics_file
    /\ UNCHANGED <<rag_engine, collection, now, issued, last, timer, threads>>

NextMetrics ==
    \/ LogTimed
    \/ Rate

SpecMetrics == InitMetrics /\ [][NextMetrics]_vars

---------------------------------------------------------------------------
(* What log_query keeps of an answer and of the sources: one call on a fresh  *)
(* tracker, for answers and passages of lengths around the two caps.          *)

\* n times the character "a"
RECURSIVE Filler(_)
Filler(n) ==
    IF n = 0 THEN ""
    ELSE LET half == Filler(n \div 2)
         IN  half \o half \o (IF n % 2 = 1 THEN "a" ELSE "")

\* A text of n > 0 characters, the last one different from the others.
Text(n) == Filler(n - 1) \o "z"

AnswerInputs ==
    Answers \cup {Text(n) : n \in {AnswerCap - 1, AnswerCap, AnswerCap + 1, AnswerCap + SourceCap}}

PassageInputs ==
    Chunks \cup {Text(n) : n \in {SourceCap, SourceCap + 1, AnswerCap + 1}}

RECURSIVE PassageLists(_)
PassageLists(n) ==
    IF n = 0 THEN {<<>>}
    ELSE LET shorter == PassageLists(n - 1)
         IN  shorter \cup {Append(l, p) : l \in {x \in shorter : Len(x) = n - 1},
                                           p \in PassageInputs}

InitLog ==
    /\ rag_engine = "ready"
    /\ evals = <<>>
    /\ evals_file = MissingFile
    /\ metrics_file = MissingFile
    /\ collection = <<>>
    /\ now = 0
    /\ issued = {}
    /\ \E answer \in AnswerInputs, sources \in PassageLists(MaxSources) :
            last = Call("input", 0, NoCtor, FALSE, [answer |-> answer, sources |-> sources],
                        None, NoFaults, 0, 0, 0)
    /\ timer = NoTimer
    /\ threads = NoThreads

\* EvalTracker.log_query(question, answer, sources, ...)
LogAnswer ==
    /\ last.op = "input"
    /\ \E question \in QuestionInputs \ {" "} :
        LET r == log_query(evals, evals_file, metrics_file, question, last.arg.answer,
                           last.arg.sources, TicksPerCenti, TicksPerCenti, now, now, now, "ok")
        IN  /\ evals' = r.evals
            /\ evals_file' = r.evals_file
            /\ metrics_file' = r.metrics_file
            /\ issued' = issued \cup {r.ret}
            /\ last' = Call("log_query", 0, NoCtor, r.raised, last.arg, r.ret, NoFaults,
                            0, 1, Len(last.arg.sources))
    /\ UNCHANGED <<rag_engine, collection, now, timer, threads>>

NextLog == LogAnswer

SpecLog == InitLog /\ [][NextLog]_vars

---------------------------------------------------------------------------
(* The size of a retrieval: POST /api/query with every requested count up to  *)
(* MaxRequested over every collection of up to MaxIndexed chunks.             *)

InitClamp ==
    /\ rag_engine = "ready"
    /\ evals = <<>>
    /\ evals_file = MissingFile
    /\ metrics_file = MissingFile
    /\ \E count \in 0..MaxIndexed, chunk \in Chunks : collection = [i \in 1..count |-> chunk]
    /\ now = 0
    /\ issued = {}
    /\ \E n \in 1..MaxRequested :
            last = Call("input", 0, NoCtor, FALSE, [n |-> n], None, NoFaults, 0, 0, 0)
    /\ timer = NoTimer
    /\ threads = NoThreads

\* POST /api/query with n_results = last.arg.n
ClampedQuery ==
    /\ last.op = "input"
    /\ \E question \in QuestionInputs \ {" "}, answer \in Answers, dist \in Distances :
        LET n_results == ClampNResults(last.arg.n)
            env == QueryEnv("ok", "ok", answer, [i \in 1..Len(collection) |-> i],
                            [i \in 1..Len(collection) |-> dist], Pad(<<now>>, 7), "ok")
            r == query(evals, evals_file, metrics_file, collection, question, n_results, env)
        IN  /\ evals' = r.evals
            /\ evals_file' = r.evals_file
            /\ metrics_file' = r.metrics_file
            /\ now' = r.clock
            /\ issued' = IF r.resp.query_id = None THEN issued
                         ELSE issued \cup {r.resp.query_id[1]}
            /\ last' = Call("query", 200, NoCtor, r.raised,
                            [n |-> last.arg.n, n_results |-> n_results], r.resp, r.faults,
                            r.gen_calls, r.log_calls, r.retrieved)
    /\ UNCHANGED <<rag_engine, collection, timer, threads>>

NextClamp == ClampedQuery

SpecClamp == InitClamp /\ [][NextClamp]_vars

---------------------------------------------------------------------------
(* Two request threads in one EvalTracker. Flask serves each request on its   *)
(* own thread and EvalTracker takes no lock, so the statements of log_query   *)
(* and add_feedback of two calls interleave. A step is one statement: the     *)
(* append, open(file, 'w') (which empties the file), the list comprehension   *)
(* that snapshots the records, json.dump with the close that flushes it, the   *)
(* computation of the metrics, and the same open and dump for metrics.json.   *)

Threads == {"A", "B"}

Other(th) == CHOOSE o \in Threads : o # th

\* A thread that has no call yet. alone: no other call was in progress when
\* this one started; torn_evals, torn_metrics: another thread wrote the file
\* after this one opened it and nobody emptied it since, so this one's write
\* lands on top of that content.
IdleThread ==
    [op |-> "none", pc |-> "idle", arg |-> None, snap |-> <<>>, metrics |-> EmptyMetrics,
     ret |-> None, alone |-> TRUE, torn_evals |-> FALSE, torn_metrics |-> FALSE]

InProgress(t) == t.pc \notin {"idle", "returned"}

\* What a write through a handle leaves in the file: the content when the file
\* was still empty, and else the content or, when it is shorter than what the
\* other thread wrote meanwhile, its text followed by the rest of the other's.
Written(content, torn) == IF torn THEN {JsonFile(content), InvalidJson} ELSE {JsonFile(content)}

\* The record first logged at the reading 0, before the two calls.
FirstLogged ==
    log_query(<<>>, MissingFile, MissingFile, "What is the capital of France?", "Paris.",
              <<"Paris is the capital of France.">>, TicksPerCenti, TicksPerCenti,
              0, 0, 0, "ok")

InitRace ==
    /\ rag_engine = "ready"
    /\ \E before \in {Outcome(FALSE, None, <<>>, MissingFile, MissingFile), FirstLogged} :
        /\ evals = before.evals
        /\ evals_file = before.evals_file
        /\ metrics_file = before.metrics_file
        /\ issued = {before.evals[i].query_id : i \in DOMAIN before.evals}
    /\ collection \in {<<chunk>> : chunk \in Chunks}
    /\ now = 1
    /\ last = NoCall
    /\ timer = NoTimer
    /\ threads = [th \in Threads |-> IdleThread]

\* A request thread enters log_query or add_feedback.
RaceCall(th) ==
    /\ threads[th].pc = "idle"
    /\ \E op \in {"log_query", "add_feedback"} :
        \E arg \in IF op = "log_query"
                   THEN {[question |-> q, answer |-> a, sources |-> <<c>>] :
                            q \in QuestionInputs \ {" "}, a \in Answers, c \in Chunks}
                   ELSE {[query_id |-> id, feedback |-> "positive", comment |-> None] :
                            id \in issued \cup {<<"nonexistent-id">>}} :
            threads' = [threads EXCEPT ![th] =
                            [IdleThread EXCEPT !.op = op, !.arg = arg,
                                               !.pc = IF op = "log_query" THEN "append" ELSE "find",
                                               !.alone = ~InProgress(threads[Other(th)])]]
    /\ UNCHANGED <<rag_engine, evals, evals_file, metrics_file, collection, now, issued,
                   last, timer>>

\* log_query up to self.evals.append(eval_entry)
RaceAppend(th) ==
    /\ threads[th].pc = "append"
    /\ LET a == threads[th].arg
           eval_entry == QueryEval(QueryId(now), IsoFormat(now), a.question, a.answer,
                                   a.sources, TicksPerCenti, TicksPerCenti)
       IN  /\ evals' = Append(evals, eval_entry)
           /\ threads' = [threads EXCEPT ![th].pc = "open_evals", ![th].ret = QueryId(now)]
    /\ now' = now + 1
    /\ UNCHANGED <<rag_engine, evals_file, metrics_file, collection, issued, last, timer>>

\* add_feedback's loop: the first record with the id gets the feedback and the
\* comment; without one the call returns False.
RaceFind(th) ==
    /\ threads[th].pc = "find"
    /\ LET a == threads[th].arg
           i == FirstMatch(evals, a.query_id)
       IN  IF i = 0
           THEN /\ threads' = [threads EXCEPT ![th].pc = "returned", ![th].ret = FALSE]
                /\ UNCHANGED evals
           ELSE /\ evals' = [evals EXCEPT ![i].feedback = Some(a.feedback),
                                          ![i].feedback_comment = a.comment]
                /\ threads' = [threads EXCEPT ![th].pc = "open_evals", ![th].ret = TRUE]
    /\ UNCHANGED <<rag_engine, evals_file, metrics_file, collection, now, issued, last, timer>>

\* _save_evals: open(self.evals_file, 'w')
RaceOpenEvals(th) ==
    /\ threads[th].pc = "open_evals"
    /\ evals_file' = InvalidJson
    /\ threads' = [threads EXCEPT ![th].pc = "snapshot", ![th].torn_evals = FALSE,
                                  ![Other(th)].torn_evals = FALSE]
    /\ UNCHANGED <<rag_engine, evals, metrics_file, collection, now, issued, last, timer>>

\* _save_evals: [asdict(e) for e in self.evals]
RaceSnapshot(th) ==
    /\ threads[th].pc = "snapshot"
    /\ threads' = [threads EXCEPT ![th].pc = "dump_evals",
                                  ![th].snap = [i \in DOMAIN evals |-> asdict(evals[i])]]
    /\ UNCHANGED <<rag_engine, evals, evals_file, metrics_file, collection, now, issued,
                   last, timer>>

\* _save_evals that never gets its snapshot into the file.
RaceDumpEvals_LeavesEmpty(th) ==
    /\ threads[th].pc = "dump_evals"
    /\ threads' = [threads EXCEPT ![th].pc = "compute_metrics"]
    /\ UNCHANGED <<rag_engine, evals, evals_file, metrics_file, collection, now, issued,
                   last, timer>>

\* _save_evals: json.dump(snapshot, f) and the close of the file
RaceDumpEvals(th) ==
    /\ threads[th].pc = "dump_evals"
    /\ evals_file' \in Written(threads[th].snap, threads[th].torn_evals)
    /\ threads' = [threads EXCEPT
                        ![th].pc = "compute_metrics",
                        ![Other(th)].torn_evals =
                            \/ threads[Other(th)].torn_evals
                            \/ threads[Other(th)].pc \in {"snapshot", "dump_evals"}]
    /\ UNCHANGED <<rag_engine, evals, metrics_file, collection, now, issued, last, timer>>

\* _update_metrics up to the metrics dictionary, built from self.evals
RaceComputeMetrics(th) ==
    /\ threads[th].pc = "compute_metrics"
    /\ threads' = [threads EXCEPT
                        ![th].pc = IF evals = <<>> THEN "returned" ELSE "open_metrics",
                        ![th].metrics = IF evals = <<>> THEN EmptyMetrics
                                        ELSE Metrics(evals, now)]
    /\ UNCHANGED <<rag_engine, evals, evals_file, metrics_file, collection, now, issued,
                   last, timer>>

\* _update_metrics: open(self.metrics_file, 'w')
RaceOpenMetrics(th) ==
    /\ threads[th].pc = "open_metrics"
    /\ metrics_file' = InvalidJson
    /\ threads' = [threads EXCEPT ![th].pc = "dump_metrics", ![th].torn_metrics = FALSE,
                                  ![Other(th)].torn_metrics = FALSE]
    /\ UNCHANGED <<rag_engine, evals, evals_file, collection, now, issued, last, timer>>

\* _update_metrics: json.dump(metrics, f) and the close; then the call returns.
RaceDumpMetrics(th) ==
    /\ threads[th].pc = "dump_metrics"
    /\ metrics_file' \in Written(threads[th].metrics, threads[th].torn_metrics)
    /\ threads' = [threads EXCEPT
                        ![th].pc = "returned",
                        ![Other(th)].torn_metrics =
                            \/ threads[Other(th)].torn_metrics
                            \/ threads[Other(th)].pc = "dump_metrics"]
    /\ issued' = IF threads[th].op = "log_query" THEN issued \cup {threads[th].ret}
                 ELSE issued
    /\ UNCHANGED <<rag_engine, evals, evals_file, collection, now, last, timer>>

NextRace ==
    \E th \in Threads :
        \/ RaceCall(th)
        \/ RaceAppend(th)
        \/ RaceFind(th)
        \/ RaceOpenEvals(th)
        \/ RaceSnapshot(th)
        \/ RaceDumpEvals(th)
        \/ RaceComputeMetrics(th)
        \/ RaceOpenMetrics(th)
        \/ RaceDumpMetrics(th)

SpecRace == InitRace /\ [][NextRace]_vars

---------------------------------------------------------------------------
(* One EvalTracker through its lifetime, called directly: any sequence of     *)
(* log_query, add_feedback (with and without a comment), get_metrics,         *)
(* get_recent_evals and export_evals. last is the latest call.                *)

CommentInputs == Comments \cup {None}

\* The call made on the tracker, its arguments and what it returned.
TrackerCall(op, arg, ret) == Call(op, 0, NoCtor, FALSE, arg, ret, NoFaults, 0, 0, 0)

InitTracker ==
    /\ rag_engine = "ready"
    /\ evals = <<>>
    /\ evals_file = MissingFile
    /\ metrics_file = MissingFile
    /\ collection = <<>>
    /\ now = 0
    /\ issued = {}
    /\ last = NoCall
    /\ timer = NoTimer
    /\ threads = NoThreads

\* tracker.log_query(...)
TrackerLog ==
    /\ Len(evals) < MaxEvals
    /\ \E question \in QuestionInputs \ {" "}, answer \in Answers, chunk \in Chunks,
          t \in now..MaxClock :
        LET r == log_query(evals, evals_file, metrics_file, question, answer, <<chunk>>,
                           TicksPerCenti, TicksPerCenti, t, t, t, "ok")
        IN  /\ evals' = r.evals
            /\ evals_file' = r.evals_file
            /\ metrics_file' = r.metrics_file
            /\ now' = t
            /\ issued' = issued \cup {r.ret}
            /\ last' = TrackerCall("log_query", None, r.ret)
    /\ UNCHANGED <<rag_engine, collection, timer, threads>>

\* tracker.add_feedback(query_id, feedback, comment); before is what the first
\* record with the id held when the call was made.
TrackerFeedback ==
    /\ \E query_id \in QueryIdInputs, feedback \in {"positive", "negative"},
          comment \in CommentInputs, t \in now..MaxClock :
        LET r == add_feedback(evals, evals_file, metrics_file, query_id, feedback, comment,
                              t, "ok")
            i == FirstMatch(evals, query_id)
        IN  /\ evals' = r.evals
            /\ evals_file' = r.evals_file
            /\ metrics_file' = r.metrics_file
            /\ now' = IF r.ret THEN t ELSE now
            /\ last' = TrackerCall("add_feedback",
                                   [query_id |-> query_id, feedback |-> feedback,
                                    comment |-> comment,
                                    before |-> IF i = 0 THEN <<>>
                                               ELSE <<evals[i].feedback,
                                                      evals[i].feedback_comment>>],
                                   r.ret)
    /\ UNCHANGED <<rag_engine, collection, issued, timer, threads>>

\* tracker.get_metrics()
TrackerMetrics ==
    /\ last' = TrackerCall("get_metrics", None, get_metrics(metrics_file).value)
    /\ UNCHANGED <<rag_engine, evals, evals_file, metrics_file, collection, now, issued,
                   timer, threads>>

\* tracker.get_recent_evals(limit)
TrackerRecent ==
    /\ \E limit \in LimitInputs :
            last' = TrackerCall("get_recent_evals", limit, get_recent_evals(evals, limit))
    /\ UNCHANGED <<rag_engine, evals, evals_file, metrics_file, collection, now, issued,
                   timer, threads>>

\* tracker.export_evals()
TrackerExport ==
    /\ last' = TrackerCall("export_evals", None, export_evals(evals, metrics_file, now).value)
    /\ UNCHANGED <<rag_engine, evals, evals_file, metrics_file, collection, now, issued,
                   timer, threads>>

NextTracker ==
    \/ TrackerLog
    \/ TrackerFeedback
    \/ TrackerMetrics
    \/ TrackerRecent
    \/ TrackerExport

SpecTracker == InitTracker /\ [][NextTracker]_vars

---------------------------------------------------------------------------
(* The response of RAGEngine.query: one query over up to MaxSources distinct  *)
(* passages, each longer than a preview, for every ranking the vector store   *)
(* may give and every list of cosine distances, closest first.                *)

\* The i-th indexed passage: SourceCap + i characters.
Passage(i) == Text(SourceCap + i)

\* Cosine distances, in 1/10000: 0, 0.1234, 0.9996, 1.5 and 2.
DistanceInputs == {0, 1234, 9996, 15000, 20000}

SortedDistances(k) ==
    {d \in [1..k -> DistanceInputs] : \A i, j \in 1..k : i <= j => d[i] <= d[j]}

InitScores ==
    /\ rag_engine = "ready"
    /\ evals = <<>>
    /\ evals_file = MissingFile
    /\ metrics_file = MissingFile
    /\ \E count \in 1..MaxSources : collection = [i \in 1..count |-> Passage(i)]
    /\ now = 0
    /\ issued = {}
    /\ \E n_results \in 1..MaxSources :
        /\ n_results <= Len(collection)
        /\ \E hits \in Rankings(Len(collection)), dist \in SortedDistances(n_results) :
                last = Call("input", 0, NoCtor, FALSE,
                            [n_results |-> n_results, hits |-> hits, dist |-> dist],
                            None, NoFaults, 0, 0, 0)
    /\ timer = NoTimer
    /\ threads = NoThreads

\* rag_engine.query(question, n_results)
ScoredQuery ==
    /\ last.op = "input"
    /\ \E question \in QuestionInputs \ {" "}, answer \in Answers :
        LET env == QueryEnv("ok", "ok", answer, last.arg.hits, last.arg.dist,
                            Pad(<<now>>, 7), "ok")
            r == query(evals, evals_file, metrics_file, collection, question,
                       last.arg.n_results, env)
        IN  /\ evals' = r.evals
            /\ evals_file' = r.evals_file
            /\ metrics_file' = r.metrics_file
            /\ now' = r.clock
            /\ issued' = issued \cup {r.resp.query_id[1]}
            /\ last' = Call("query", 200, NoCtor, r.raised, last.arg, r.resp, r.faults,
                            r.gen_calls, r.log_calls, r.retrieved)
    /\ UNCHANGED <<rag_engine, collection, timer, threads>>

NextScores == ScoredQuery

SpecScores == InitScores /\ [][NextScores]_vars

---------------------------------------------------------------------------
(* One EvalTracker whose writes may raise: each log_query either writes both  *)
(* files, or raises while opening or while dumping the record file or the     *)
(* metrics file.                                                              *)

FailingWrites == {"evals", "metrics"} \X {"open_fail", "dump_fail"}

InitWriteFail == InitTracker

\* tracker.log_query(...) with both writes going through
WriteFailLogged ==
    /\ Len(evals) < MaxEvals
    /\ \E question \in QuestionInputs \ {" "}, answer \in Answers, chunk \in Chunks,
          t \in now..MaxClock :
        LET r == log_query(evals, evals_file, metrics_file, question, answer, <<chunk>>,
                           TicksPerCenti, TicksPerCenti, t, t, t, "ok")
        IN  /\ evals' = r.evals
            /\ evals_file' = r.evals_file
            /\ metrics_file' = r.metrics_file
            /\ now' = t
            /\ issued' = issued \cup {r.ret}
            /\ last' = Call("log_query", 0, NoCtor, r.raised, None, r.ret, NoFaults, 0, 0, 0)
    /\ UNCHANGED <<rag_engine, collection, timer, threads>>

\* tracker.log_query(...) with a write that raises
WriteFailRaised ==
    /\ Len(evals) < MaxEvals
    /\ \E question \in QuestionInputs \ {" "}, answer \in Answers, chunk \in Chunks,
          t \in now..MaxClock, w \in FailingWrites :
        LET r == log_query(evals, evals_file, metrics_file, question, answer, <<chunk>>,
                           TicksPerCenti, TicksPerCenti, t, t, t, w)
        IN  /\ evals' = r.evals
            /\ evals_file' = r.evals_file
            /\ metrics_file' = r.metrics_file
            /\ now' = t
            /\ last' = Call("log_query", 0, NoCtor, r.raised, Some(w), r.ret, NoFaults, 0, 0, 0)
    /\ UNCHANGED <<rag_engine, collection, issued, timer, threads>>

\* EvalTracker(): a new tracker over the files the old one left.
WriteFailReload ==
    /\ evals' = _load_evals(evals_file).evals
    /\ last' = Call("__init__", 0, NoCtor, FALSE, None, None, NoFaults, 0, 0, 0)
    /\ UNCHANGED <<rag_engine, evals_file, metrics_file, collection, now, issued, timer,
                   threads>>

NextWriteFail ==
    \/ WriteFailLogged
    \/ WriteFailRaised
    \/ WriteFailReload
    \/ TrackerMetrics

SpecWriteFail == InitWriteFail /\ [][NextWriteFail]_vars

---------------------------------------------------------------------------
(* One EvalTracker given feedback directly, with any string: log_query and    *)
(* add_feedback called on the tracker (or through RAGEngine.add_feedback),    *)
(* not through the /api/feedback handler that checks the value.               *)

InitAnyFeedback == InitTracker

\* tracker.add_feedback(query_id, feedback, comment) with an unchecked string
AnyFeedback ==
    /\ \E query_id \in QueryIdInputs, feedback \in FeedbackInputs,
          comment \in CommentInputs, t \in now..MaxClock :
        LET r == add_feedback(evals, evals_file, metrics_file, query_id, feedback, comment,
                              t, "ok")
        IN  /\ evals' = r.evals
            /\ evals_file' = r.evals_file
            /\ metrics_file' = r.metrics_file
            /\ now' = IF r.ret THEN t ELSE now
            /\ last' = TrackerCall("add_feedback",
                                   [query_id |-> query_id, feedback |-> feedback,
                                    comment |-> comment],
                                   r.ret)
    /\ UNCHANGED <<rag_engine, collection, issued, timer, threads>>

NextAnyFeedback ==
    \/ TrackerLog
    \/ AnyFeedback
    \/ TrackerMetrics

SpecAnyFeedback == InitAnyFeedback /\ [][NextAnyFeedback]_vars

---------------------------------------------------------------------------
(* get_rag_engine under the threaded server: two request threads, each going  *)
(* through the steps of get_rag_engine (read the global, construct, assign,   *)
(* return) and then logging one query on the engine it was given. rag_engine  *)
(* is the global _rag_engine: "None" or the thread whose RAGEngine() it       *)
(* holds. threads[th].evals is the record list of the EvalTracker of the      *)
(* engine th constructed; evals is the list of the engine in the global.      *)

\* A thread with no request yet. engine: the engine get_rag_engine returned to
\* it; built: it has constructed a RAGEngine.
BootIdle == [pc |-> "idle", engine |-> "None", built |-> FALSE, evals |-> <<>>, ret |-> None]

InitBoot ==
    /\ rag_engine = "None"
    /\ evals = <<>>
    /\ \E before \in {Outcome(FALSE, None, <<>>, MissingFile, MissingFile), FirstLogged} :
        /\ evals_file = before.evals_file
        /\ metrics_file = before.metrics_file
        /\ issued = {before.evals[i].query_id : i \in DOMAIN before.evals}
    /\ collection = <<>>
    /\ now = 0
    /\ last = NoCall
    /\ timer = NoTimer
    /\ threads = [th \in Threads |-> BootIdle]

\* A request arrives and its handler calls get_rag_engine().
BootCall(th) ==
    /\ threads[th].pc \in {"idle", "done"}
    /\ threads' = [threads EXCEPT ![th].pc = "check", ![th].engine = "None", ![th].ret = None]
    /\ UNCHANGED <<rag_engine, evals, evals_file, metrics_file, collection, now, issued, last,
                   timer>>

\* if _rag_engine is None:
BootCheck(th) ==
    /\ threads[th].pc = "check"
    /\ threads' = [threads EXCEPT ![th].pc = IF rag_engine = "None" THEN "construct"
                                             ELSE "return"]
    /\ UNCHANGED <<rag_engine, evals, evals_file, metrics_file, collection, now, issued, last,
                   timer>>

\* RAGEngine(): its EvalTracker loads the record file as it is now.
BootConstruct(th) ==
    /\ threads[th].pc = "construct"
    /\ threads' = [threads EXCEPT ![th].pc = "assign", ![th].built = TRUE,
                                  ![th].evals = _load_evals(evals_file).evals]
    /\ UNCHANGED <<rag_engine, evals, evals_file, metrics_file, collection, now, issued, last,
                   timer>>

\* _rag_engine = <the engine just constructed>
BootAssign(th) ==
    /\ threads[th].pc = "assign"
    /\ rag_engine' = th
    /\ evals' = threads[th].evals
    /\ threads' = [threads EXCEPT ![th].pc = "return"]
    /\ UNCHANGED <<evals_file, metrics_file, collection, now, issued, last, timer>>

\* return _rag_engine
BootReturn(th) ==
    /\ threads[th].pc = "return"
    /\ threads' = [threads EXCEPT ![th].pc = "holding", ![th].engine = rag_engine]
    /\ UNCHANGED <<rag_engine, evals, evals_file, metrics_file, collection, now, issued, last,
                   timer>>

\* The handler's query logs a record on the tracker of the engine it holds.
BootLog(th) ==
    /\ threads[th].pc = "holding"
    /\ LET e == threads[th].engine
       IN  /\ Len(threads[e].evals) < MaxEvals
           /\ \E question \in QuestionInputs \ {" "}, answer \in Answers, chunk \in Chunks,
                 t \in now..MaxClock :
                LET r == log_query(threads[e].evals, evals_file, metrics_file, question,
                                   answer, <<chunk>>, TicksPerCenti, TicksPerCenti, t, t, t,
                                   "ok")
                IN  /\ threads' = [threads EXCEPT ![e].evals = r.evals, ![th].pc = "done",
                                                  ![th].ret = Some(r.ret)]
                    /\ evals' = IF rag_engine = e THEN r.evals ELSE evals
                    /\ evals_file' = r.evals_file
                    /\ metrics_file' = r.metrics_file
                    /\ now' = t
                    /\ issued' = issued \cup {r.ret}
    /\ UNCHANGED <<rag_engine, collection, last, timer>>

NextBoot ==
    \E th \in Threads :
        \/ BootCall(th)
        \/ BootCheck(th)
        \/ BootConstruct(th)
        \/ BootAssign(th)
        \/ BootReturn(th)
        \/ BootLog(th)

SpecBoot == InitBoot /\ [][NextBoot]_vars

---------------------------------------------------------------------------
(* Properties *)

\* The number of records of es whose feedback is fb.
HowMany(es, fb) == Cardinality({i \in DOMAIN es : es[i].feedback = fb})

\* The snapshot m is what the records es give: the count, the feedback
\* breakdown and the averages (everything but the time of writing).
SnapshotOf(m, es) ==
    /\ m.total_queries = Len(es)
    /\ es # <<>> =>
        /\ m.feedback.positive = HowMany(es, Some("positive"))
        /\ m.feedback.negative = HowMany(es, Some("negative"))
        /\ m.feedback.no_feedback = HowMany(es, None)
        /\ m.avg_retrieval_time_ms = RoundHalfEven(SumOver(es, "retrieval_time_ms"), Len(es))
        /\ m.avg_generation_time_ms = RoundHalfEven(SumOver(es, "generation_time_ms"), Len(es))
        /\ m.avg_total_time_ms = RoundHalfEven(SumOver(es, "total_time_ms"), Len(es))
        /\ m.avg_sources_per_query = RoundHalfEven(100 * SumOver(es, "num_sources"), Len(es))

\* This step is the handler op answering a request.
Answers_(op) == last.op = "none" /\ last'.op = op

\* C1: whenever a tracker is live, get_metrics() does not raise and returns the
\* snapshot of the tracker's current records: total_queries is their number
\* (0 when there are none) and the feedback counts are the counts over them.
C1_MetricsMatchRecords ==
    rag_engine = "ready" =>
        LET m == get_metrics(metrics_file)
        IN  /\ ~m.raised
            /\ SnapshotOf(m.value, evals)

\* C2: get_recent_evals(k), for 0 <= k <= N records held, returns exactly k
\* records: the k last logged, newest first.
C2_RecentEvalsLastK ==
    (last.op = "evals" /\ last.http = 200 /\ last.arg \in 0..Len(evals)) =>
        LET got == last.ret.evals
            k == last.arg
            n == Len(evals)
        IN  /\ Len(got) = k
            /\ \A i \in 1..k : got[i] = evals[n + 1 - i]

\* C3: add_feedback returns true exactly when a record of the tracker has the
\* id; then the metrics file counts the new feedback; otherwise it raises
\* nothing and the records, the record file and the metrics file stay as
\* they were.
C3_Step ==
    (Answers_("feedback") /\ last'.http \in {200, 404}) =>
        LET query_id == last'.arg[1]
            feedback == last'.arg[2]
            had == \E i \in DOMAIN EngineEvals : EngineEvals[i].query_id = query_id
            m == get_metrics(metrics_file')
        IN  /\ ~last'.raised
            /\ last'.ret = had
            /\ had =>
                /\ ~m.raised
                /\ m.value.feedback.positive = HowMany(evals', Some("positive"))
                /\ m.value.feedback.negative = HowMany(evals', Some("negative"))
                /\ m.value.feedback[feedback] >= 1
                /\ \E i \in DOMAIN evals' :
                        /\ evals'[i].query_id = query_id
                        /\ evals'[i].feedback = Some(feedback)
            /\ ~had =>
                /\ evals' = EngineEvals
                /\ evals_file' = evals_file
                /\ metrics_file' = metrics_file

C3_FeedbackFoundOrUntouched == [][C3_Step]_vars

C3_Witness ==
    /\ last.op = "feedback"
    /\ last.http = 200
    /\ last.arg[2] = "negative"
    /\ Len(evals) >= 2
    /\ metrics_file.data.feedback.negative = 1

\* C4: a query whose retrieval returns no passage answers the fixed "no
\* documents" text with num_sources 0, no query id and generation_time_ms 0,
\* calls neither the generator nor log_query, and leaves the records, both
\* files and total_queries as they were.
C4_Step ==
    (/\ Answers_("query")
     /\ last'.http # 400
     /\ ~last'.ctor.raised
     /\ last'.faults.retr # "raise"
     /\ last'.retrieved = 0) =>
        /\ ~last'.raised
        /\ last'.http = 200
        /\ last'.ret.answer = NoDocsAnswer
        /\ last'.ret.sources = <<>>
        /\ last'.ret.num_sources = 0
        /\ last'.ret.query_id = None
        /\ last'.ret.metrics.generation_time_ms = 0
        /\ last'.gen_calls = 0
        /\ last'.log_calls = 0
        /\ evals' = EngineEvals
        /\ evals_file' = evals_file
        /\ metrics_file' = metrics_file
        /\ get_metrics(metrics_file').value.total_queries
                = get_metrics(metrics_file).value.total_queries

C4_EmptyRetrievalLogsNothing == [][C4_Step]_vars

C4_Witness ==
    /\ last.op = "query"
    /\ last.http = 200
    /\ last.retrieved = 0
    /\ last.ret.query_id = None
    /\ evals # <<>>

\* C5: when the retriever or the generator raises, query() raises, the handler
\* answers 500, log_query is not called and the records and both files stay as
\* they were.
C5_Step ==
    (/\ Answers_("query")
     /\ (last'.faults.retr = "raise" \/ last'.faults.gen = "raise")) =>
        /\ last'.raised
        /\ last'.http = 500
        /\ last'.ret = None
        /\ last'.log_calls = 0
        /\ evals' = EngineEvals
        /\ evals_file' = evals_file
        /\ metrics_file' = metrics_file

C5_FailureLogsNothing == [][C5_Step]_vars

C5_Witness ==
    /\ last.op = "query"
    /\ last.faults.gen = "raise"
    /\ last.http = 500
    /\ last.gen_calls = 1
    /\ evals # <<>>

\* C6: when log_query returns, and when add_feedback returns true, the record
\* file holds the in-memory list (same records, same order, same feedback) and
\* the metrics file holds the metrics of that list.
C6_FilesMatchMemoryAtReturn ==
    (\/ last.op = "query" /\ last.log_calls = 1 /\ ~last.raised
     \/ last.op = "feedback" /\ last.http = 200) =>
        /\ evals_file.kind = "json"
        /\ Len(evals_file.data) = Len(evals)
        /\ \A i \in DOMAIN evals : evals_file.data[i] = evals[i]
        /\ metrics_file.kind = "json"
        /\ SnapshotOf(metrics_file.data, evals)

C6_Witness ==
    /\ last.op = "feedback"
    /\ last.http = 200
    /\ Len(evals) >= 2
    /\ evals[2].feedback = Some("positive")
    /\ evals[1].feedback = None

\* C7: no two records of the tracker share a query_id.
C7_QueryIdsUnique ==
    \A i, j \in DOMAIN evals : i # j => evals[i].query_id # evals[j].query_id

\* C8: a query with a non-empty retrieval and a successful generation calls
\* the generator and log_query once each and adds exactly one record; the id it
\* returns is the id of a record whose num_sources is the number of passages
\* retrieved; and add_feedback with an id returned by this engine returns true.
C8_Step ==
    /\ (Answers_("query") /\ last'.http = 200 /\ last'.retrieved > 0) =>
            /\ last'.gen_calls = 1
            /\ last'.log_calls = 1
            /\ Len(evals') = Len(EngineEvals) + 1
            /\ last'.ret.query_id # None
            /\ last'.ret.num_sources = last'.retrieved
            /\ \E i \in DOMAIN evals' :
                    /\ evals'[i].query_id = last'.ret.query_id[1]
                    /\ evals'[i].num_sources = last'.retrieved
            /\ last'.ret.query_id[1] \in issued'
    /\ (Answers_("feedback") /\ last'.http \in {200, 404} /\ last'.arg[1] \in EngineIssued) =>
            last'.ret = TRUE

C8_AnsweredQueryIsLoggedOnce == [][C8_Step]_vars

C8_Witness ==
    /\ last.op = "feedback"
    /\ last.http = 200
    /\ last.arg[1] \in issued
    /\ Len(evals) >= 2

\* C9 as stated: in the record log_query writes and in the timing block query()
\* returns, total_time_ms is the sum of the stored retrieval_time_ms and
\* generation_time_ms.
C9_TotalIsSumOfRoundedParts ==
    (last.op = "query" /\ last.http = 200 /\ last.log_calls = 1) =>
        LET e == evals[Len(evals)]
            m == last.ret.metrics
        IN  /\ e.total_time_ms = e.retrieval_time_ms + e.generation_time_ms
            /\ m.total_time_ms = m.retrieval_time_ms + m.generation_time_ms

\* The distance between two integers.
Dist(a, b) == IF a < b THEN b - a ELSE a - b

\* C9 amended: in both, total_time_ms is the sum of the two elapsed times,
\* rounded once, and so is within 0.01 ms of the sum of the stored
\* retrieval_time_ms and generation_time_ms.
C9_TotalIsRoundedSum ==
    (last.op = "query" /\ last.http = 200 /\ last.log_calls = 1) =>
        LET e == evals[Len(evals)]
            m == last.ret.metrics
            exact == last.arg.retrieval_time + last.arg.generation_time
        IN  /\ e.total_time_ms = RoundHalfEven(exact, TicksPerCenti)
            /\ m.total_time_ms = RoundHalfEven(exact, TicksPerCenti)
            /\ e.retrieval_time_ms = RoundHalfEven(last.arg.retrieval_time, TicksPerCenti)
            /\ e.generation_time_ms = RoundHalfEven(last.arg.generation_time, TicksPerCenti)
            /\ m.retrieval_time_ms = e.retrieval_time_ms
            /\ m.generation_time_ms = e.generation_time_ms
            /\ Dist(e.total_time_ms, e.retrieval_time_ms + e.generation_time_ms) <= 1
            /\ Dist(m.total_time_ms, m.retrieval_time_ms + m.generation_time_ms) <= 1

C9_Witness ==
    /\ last.op = "query"
    /\ last.http = 200
    /\ evals[1].total_time_ms = evals[1].retrieval_time_ms + evals[1].generation_time_ms + 1
    /\ last.ret.metrics.total_time_ms = evals[1].total_time_ms

\* C10: building the tracker never raises, whatever the record file holds; a
\* missing, unparseable or wrongly shaped file gives an empty record list.
C10_ConstructionSurvivesBadFile ==
    last.ctor.built =>
        /\ ~last.ctor.raised
        /\ rag_engine = "ready"
        /\ last.ctor.file \in {"missing", "invalid_json", "bad_shape"}
                => last.ctor.loaded = 0

C10_Witness ==
    /\ last.ctor.built
    /\ last.ctor.file = "bad_shape"
    /\ rag_engine = "ready"
    /\ evals = <<>>
    /\ metrics_file.kind = "json"

\* C15: once the timed region has ended, by returning or by raising, the
\* timer's elapsed is the exit time minus the entry time, and an exception
\* raised in the region goes on to the code around it.
C15_TimerMeasuresEveryExit ==
    timer.pc = "left" =>
        /\ timer.self.start_time # None
        /\ timer.self.elapsed = timer.exit_time - timer.self.start_time[1]
        /\ timer.propagated <=> (timer.exc # None)

C15_Witness ==
    /\ timer.pc = "left"
    /\ timer.exc = Some("RuntimeError")
    /\ timer.propagated
    /\ timer.self.elapsed = 2
    /\ now > timer.exit_time

\* r is num / den rounded to the nearest integer, a tie going to the even one.
Nearest(r, num, den) ==
    /\ 2 * Dist(r * den, num) <= den
    /\ 2 * Dist(r * den, num) = den => r % 2 = 0

\* C11: in every metrics snapshot _update_metrics wrote, positive_rate is 0
\* when there is neither positive nor negative feedback, and otherwise is
\* positive / (positive + negative) * 100 rounded to 1 decimal (here in tenths).
C11_PositiveRate ==
    metrics_file.kind = "json" =>
        LET m == metrics_file.data.feedback
            positive == HowMany(evals, Some("positive"))
            negative == HowMany(evals, Some("negative"))
        IN  /\ m.positive = positive
            /\ m.negative = negative
            /\ positive + negative = 0 => m.positive_rate = 0
            /\ positive + negative > 0 =>
                    Nearest(m.positive_rate, 1000 * positive, positive + negative)

C11_Witness ==
    /\ metrics_file.kind = "json"
    /\ metrics_file.data.feedback.positive = 1
    /\ metrics_file.data.feedback.negative = 2
    /\ metrics_file.data.feedback.positive_rate = 333

\* out is what is kept of the text in under the cap: the text itself when it
\* has at most cap characters, else its first cap characters and then "...".
Kept(out, in, cap) ==
    IF Len(in) <= cap THEN out = in
    ELSE /\ Len(out) = cap + 3
         /\ SubSeq(out, 1, cap) = SubSeq(in, 1, cap)
         /\ SubSeq(out, cap + 1, cap + 3) = "..."

\* C12: the record log_query persists holds the answer unmodified when it has
\* at most 500 characters and its first 500 characters followed by "..." when
\* it has more; sources_preview holds min(3, number of sources) entries, the
\* i-th being the i-th source under the same rule at 100 characters; and
\* num_sources is the full number of sources.
C12_PersistedTextIsCapped ==
    last.op = "log_query" =>
        LET e == evals[Len(evals)]
            saved == evals_file.data[Len(evals_file.data)]
            answer == last.arg.answer
            sources == last.arg.sources
        IN  /\ Kept(e.answer, answer, 500)
            /\ Len(e.sources_preview) = (IF Len(sources) < 3 THEN Len(sources) ELSE 3)
            /\ \A i \in DOMAIN e.sources_preview : Kept(e.sources_preview[i], sources[i], 100)
            /\ e.num_sources = Len(sources)
            /\ saved.answer = e.answer
            /\ saved.sources_preview = e.sources_preview
            /\ saved.num_sources = e.num_sources

C12_Witness ==
    /\ last.op = "log_query"
    /\ Len(last.arg.answer) = 501
    /\ Len(evals_file.data[1].answer) = 503
    /\ Len(last.arg.sources) = 4
    /\ Len(last.arg.sources[2]) = 101
    /\ Len(last.arg.sources[3]) = 100
    /\ Len(evals_file.data[1].sources_preview) = 3
    /\ Len(evals_file.data[1].sources_preview[2]) = 103
    /\ evals_file.data[1].sources_preview[3] = last.arg.sources[3]

\* C13: clear_collection empties the document collection and leaves the
\* evaluation state as it was: the tracker's records, the record file and the
\* metrics file are the same after the call as before, in whatever state it
\* is called.
C13_Step ==
    Answers_("clear") =>
        /\ last'.http = 200
        /\ collection' = <<>>
        /\ evals' = EngineEvals
        /\ evals_file' = evals_file
        /\ metrics_file' = metrics_file
        /\ issued' = EngineIssued

C13_ClearKeepsEvals == [][C13_Step]_vars

C13_Witness ==
    /\ last.op = "clear"
    /\ collection = <<>>
    /\ Len(evals) = 2
    /\ evals[1].feedback # None
    /\ evals_file.kind = "json"
    /\ metrics_file.kind = "json"
    /\ metrics_file.data.total_queries = 2

\* C14: whatever count the caller asks for, the count passed to the retriever
\* is at most 10, the number of passages retrieved is at most 10 and at most
\* the number of indexed documents, and so is the num_sources returned and
\* logged.
C14_RetrievalIsBounded ==
    last.op = "query" =>
        /\ last.arg.n_results <= 10
        /\ last.arg.n_results <= last.arg.n
        /\ last.retrieved <= 10
        /\ last.retrieved <= Len(collection)
        /\ last.ret.num_sources = last.retrieved
        /\ \A i \in DOMAIN evals : evals[i].num_sources <= 10

C14_Witness ==
    /\ last.op = "query"
    /\ last.arg.n = 12
    /\ Len(collection) = 12
    /\ last.retrieved = 10
    /\ last.ret.num_sources = 10
    /\ evals[1].num_sources = 10

\* The arithmetic mean of the field over the records es, to 2 decimals, is avg
\* (both in hundredths; scale is 100 for a field kept in units).
IsMean(avg, es, field, scale) ==
    /\ 2 * Dist(avg * Len(es), scale * SumOver(es, field)) <= Len(es)
    /\ 2 * Dist(avg * Len(es), scale * SumOver(es, field)) = Len(es) => avg % 2 = 0

\* C16: after any sequence of log_query calls, each average of the metrics
\* snapshot is the arithmetic mean of its field over all the records, rounded
\* to 2 decimals; three records with retrieval times 10, 20 and 30 ms give
\* avg_retrieval_time_ms 20.0.
C16_AveragesAreMeans ==
    evals # <<>> =>
        /\ metrics_file.kind = "json"
        /\ LET m == metrics_file.data
           IN  /\ m.total_queries = Len(evals)
               /\ IsMean(m.avg_retrieval_time_ms, evals, "retrieval_time_ms", 1)
               /\ IsMean(m.avg_generation_time_ms, evals, "generation_time_ms", 1)
               /\ IsMean(m.avg_total_time_ms, evals, "total_time_ms", 1)
               /\ IsMean(m.avg_sources_per_query, evals, "num_sources", 100)
               /\ (/\ Len(evals) = 3
                   /\ {evals[i].retrieval_time_ms : i \in 1..3} = {1000, 2000, 3000})
                        => m.avg_retrieval_time_ms = 2000

C16_Witness ==
    /\ Len(evals) = 3
    /\ evals[1].retrieval_time_ms = 1000
    /\ evals[2].retrieval_time_ms = 2000
    /\ evals[3].retrieval_time_ms = 3000
    /\ evals[3].num_sources = 2
    /\ evals[1].num_sources = 1
    /\ evals[2].num_sources = 1
    /\ metrics_file.data.avg_retrieval_time_ms = 2000
    /\ metrics_file.data.avg_sources_per_query = 133
    /\ metrics_file.data.avg_total_time_ms = 2500

\* The call of thread th changed the records.
Mutated(th) ==
    \/ threads[th].op = "log_query"
    \/ threads[th].op = "add_feedback" /\ threads[th].ret = TRUE

\* Both calls have returned and both changed the records.
BothReturned == \A th \in Threads : threads[th].pc = "returned" /\ Mutated(th)

\* The record file holds the records es.
FileHolds(f, es) ==
    /\ f.kind = "json"
    /\ Len(f.data) = Len(es)
    /\ \A i \in DOMAIN es : f.data[i] = es[i]

\* C17: two calls that change the records of one tracker are not kept apart.
\* When both have returned the list in memory has both changes (each logged
\* record, each feedback), and the two files agree with it if neither call
\* started while the other was in progress; if they overlapped, a file may be
\* unreadable or hold an older state of the list: the lost update of the
\* witness.
C17_OnlySerialCallsKeepFiles ==
    BothReturned =>
        /\ \A th \in Threads :
            /\ threads[th].op = "log_query" =>
                    \E i \in DOMAIN evals : evals[i].query_id = threads[th].ret
            /\ threads[th].op = "add_feedback" =>
                    evals[FirstMatch(evals, threads[th].arg.query_id)].feedback
                        = Some(threads[th].arg.feedback)
        /\ (\A th \in Threads : threads[th].alone) =>
                /\ FileHolds(evals_file, evals)
                /\ metrics_file.kind = "json"
                /\ SnapshotOf(metrics_file.data, evals)
        /\ evals_file.kind = "json" =>
                /\ Len(evals_file.data) <= Len(evals)
                /\ \A i \in DOMAIN evals_file.data :
                        evals_file.data[i].query_id = evals[i].query_id
        /\ metrics_file.kind = "json" => metrics_file.data.total_queries <= Len(evals)

\* The lost update: both calls logged a query and returned, the record file
\* holds both records, and the metrics file counts one query less.
C17_Witness ==
    /\ BothReturned
    /\ \A th \in Threads : threads[th].op = "log_query"
    /\ FileHolds(evals_file, evals)
    /\ metrics_file.kind = "json"
    /\ metrics_file.data.total_queries = Len(evals) - 1

\* The fields add_feedback may change.
FeedbackFields == {"feedback", "feedback_comment"}

\* The records a and b differ at most in the feedback and its comment.
SameButFeedback(a, b) ==
    /\ DOMAIN a = DOMAIN b
    /\ \A k \in DOMAIN a \ FeedbackFields : a[k] = b[k]

\* i is the first record of es with the id.
IsFirstWithId(es, i, id) ==
    /\ i \in DOMAIN es
    /\ es[i].query_id = id
    /\ \A j \in 1..(i - 1) : es[j].query_id # id

\* C18: in a tracker's lifetime the record list only grows at its end.
\* log_query adds exactly one record, last; add_feedback changes only the
\* feedback and the comment of the first record with the id, and nothing when
\* there is none; get_metrics, get_recent_evals and export_evals change
\* nothing; no call removes or reorders records.
C18_Step ==
    /\ Len(evals') >= Len(evals)
    /\ \A i \in DOMAIN evals : SameButFeedback(evals[i], evals'[i])
    /\ last'.op = "log_query" =>
            /\ Len(evals') = Len(evals) + 1
            /\ SubSeq(evals', 1, Len(evals)) = evals
            /\ evals'[Len(evals')].query_id = last'.ret
    /\ last'.op = "add_feedback" =>
            /\ Len(evals') = Len(evals)
            /\ \A i \in DOMAIN evals :
                    IF IsFirstWithId(evals, i, last'.arg.query_id)
                    THEN /\ evals'[i].feedback = Some(last'.arg.feedback)
                         /\ evals'[i].feedback_comment = last'.arg.comment
                    ELSE evals'[i] = evals[i]
    /\ last'.op \in {"get_metrics", "get_recent_evals", "export_evals"} =>
            /\ evals' = evals
            /\ evals_file' = evals_file
            /\ metrics_file' = metrics_file

C18_RecordsAreAppendOnly == [][C18_Step]_vars

\* A feedback given with an id two records share: the first has it, the
\* second does not.
C18_Witness ==
    /\ last.op = "add_feedback"
    /\ last.ret = TRUE
    /\ Len(evals) = 2
    /\ evals[1].query_id = evals[2].query_id
    /\ evals[1].feedback = Some("negative")
    /\ evals[2].feedback = None

\* C20: add_feedback overwrites. The same call made a second time leaves the
\* records, the record file and the feedback counts as the first left them; a
\* call on a record that already has feedback replaces both its feedback and
\* its comment (no comment given: the comment becomes unset); and every record
\* counts in exactly one of positive, negative and no_feedback.
C20_Step ==
    (last'.op = "add_feedback" /\ last'.ret = TRUE) =>
        LET a == last'.arg
            m == metrics_file'.data
        IN  /\ \E i \in DOMAIN evals :
                    /\ IsFirstWithId(evals, i, a.query_id)
                    /\ evals'[i].feedback = Some(a.feedback)
                    /\ evals'[i].feedback_comment = a.comment
            /\ m.feedback.positive = HowMany(evals', Some("positive"))
            /\ m.feedback.negative = HowMany(evals', Some("negative"))
            /\ m.feedback.no_feedback = HowMany(evals', None)
            /\ m.feedback.positive + m.feedback.negative + m.feedback.no_feedback
                    = Len(evals')
            /\ (/\ last.op = "add_feedback"
                /\ last.ret = TRUE
                /\ last.arg.query_id = a.query_id
                /\ last.arg.feedback = a.feedback
                /\ last.arg.comment = a.comment) =>
                    /\ evals' = evals
                    /\ evals_file' = evals_file
                    /\ m.feedback = metrics_file.data.feedback
                    /\ m.total_queries = metrics_file.data.total_queries

C20_FeedbackOverwrites == [][C20_Step]_vars

\* A record that had positive feedback with a comment now has negative
\* feedback and no comment, and counts as negative only.
C20_Witness ==
    /\ last.op = "add_feedback"
    /\ last.ret = TRUE
    /\ last.arg.before = <<Some("positive"), Some("helpful")>>
    /\ last.arg.feedback = "negative"
    /\ last.arg.comment = None
    /\ Len(evals) = 1
    /\ evals[1].feedback = Some("negative")
    /\ evals[1].feedback_comment = None
    /\ metrics_file.data.feedback.positive = 0
    /\ metrics_file.data.feedback.negative = 1

\* C19: a tracker built now over the same files would hold the list the live
\* tracker holds (same records, same order, same feedback and comments), and
\* add_feedback on it would find every query id the live engine has returned;
\* and the tracker a request builds after a restart over the files as they
\* were left is that list.
C19_Step ==
    /\ rag_engine' = "ready" =>
            LET reloaded == _load_evals(evals_file')
            IN  /\ ~reloaded.raised
                /\ reloaded.evals = evals'
                /\ \A id \in issued' :
                        add_feedback(reloaded.evals, evals_file', metrics_file', id,
                                     "positive", None, now', "ok").ret = TRUE
    /\ (Booting /\ rag_engine' = "ready" /\ FileShape(evals_file) = "list") =>
            /\ Len(EngineEvals) = Len(evals_file.data)
            /\ \A i \in DOMAIN EngineEvals :
                    \A k \in DOMAIN evals_file.data[i] : EngineEvals[i][k] = evals_file.data[i][k]
            /\ (Answers_("feedback") /\ last'.http \in {200, 404}) =>
                    (last'.ret <=> \E i \in DOMAIN evals_file.data :
                                        evals_file.data[i].query_id = last'.arg[1])

C19_RestartKeepsRecords == [][C19_Step]_vars

\* A feedback accepted by a tracker that a restart built from the file: two
\* records, the first with a feedback and a comment given before the restart.
C19_Witness ==
    /\ last.op = "feedback"
    /\ last.http = 200
    /\ last.ctor.built
    /\ last.ctor.loaded = 2
    /\ evals[1].feedback_comment = Some("helpful")
    /\ evals[2].feedback # None

\* C21: for a retrieval of n >= 1 passages with n distances, the response has
\* num_sources n, as sources the first min(3, n) passages in retrieval order,
\* whole, and as relevance_scores min(3, n) entries, the i-th being
\* (1 - distance_i) * 100 rounded to 1 decimal (here in tenths); the two lists
\* have the same length.
C21_ResponseSourcesAndScores ==
    last.op = "query" =>
        LET n == last.arg.n_results
            top == IF n < 3 THEN n ELSE 3
            resp == last.ret
        IN  /\ last.retrieved = n
            /\ resp.num_sources = n
            /\ Len(resp.sources) = top
            /\ \A i \in 1..top : resp.sources[i] = collection[last.arg.hits[i]]
            /\ Len(resp.relevance_scores) = top
            /\ \A i \in 1..top :
                    Nearest(resp.relevance_scores[i], 10000 - last.arg.dist[i], 10)
            /\ Len(resp.sources) = Len(resp.relevance_scores)

C21_Witness ==
    /\ last.op = "query"
    /\ last.arg.n_results = 4
    /\ last.ret.num_sources = 4
    /\ Len(last.ret.sources) = 3
    /\ last.arg.hits[1] = 4
    /\ Len(last.ret.sources[1]) = 104
    /\ last.ret.relevance_scores = <<877, 0, -500>>
    /\ Len(evals[1].sources_preview[1]) = 103

\* C22: every relevance score of a response lies in 0..100 (0..1000 in tenths)
\* for every cosine distance in 0..2.
C22_ScoresWithinPercent ==
    last.op = "query" =>
        \A i \in 1..Len(last.ret.relevance_scores) :
            /\ last.ret.relevance_scores[i] >= 0
            /\ last.ret.relevance_scores[i] <= 1000

\* The record file describes the records es (no file for no records).
FileDescribes(f, es) == IF es = <<>> THEN f.kind = "missing" ELSE FileHolds(f, es)

\* The metrics file describes the records es (no file for no records).
MetricsDescribe(f, es) ==
    IF es = <<>> THEN f.kind = "missing" ELSE f.kind = "json" /\ SnapshotOf(f.data, es)

\* A log_query whose write raised: the error reaches the caller, the list in
\* memory is unchanged, and the files describe it where they did before.
C23_Step ==
    (last'.op = "log_query" /\ last'.arg # None /\ last' # last) =>
        /\ last'.raised
        /\ evals' = evals
        /\ FileDescribes(evals_file, evals) => FileDescribes(evals_file', evals')
        /\ MetricsDescribe(metrics_file, evals) => MetricsDescribe(metrics_file', evals')

\* C23: a log_query whose write of the record file or of the metrics file
\* raises gives the error to its caller and leaves the tracker as it was: the
\* list in memory is the one before the call, and where the two files described
\* that list before the call they describe it after.
C23_FailedWriteLeavesTrackerConsistent == [][C23_Step]_vars

\* C24: in every metrics snapshot the feedback counts positive, negative and
\* no_feedback add up to total_queries, whatever strings add_feedback was given.
C24_FeedbackCountsAddUp ==
    (metrics_file.kind = "json") =>
        metrics_file.data.feedback.positive + metrics_file.data.feedback.negative
            + metrics_file.data.feedback.no_feedback = metrics_file.data.total_queries

\* The engines that were constructed.
Engines == {th \in Threads : threads[th].built}

\* The record a finished request logged is in the record file.
Persisted(th) ==
    /\ evals_file.kind = "json"
    /\ \E i \in DOMAIN evals_file.data : evals_file.data[i].query_id = threads[th].ret[1]

\* C25: however the first requests interleave, get_rag_engine constructs at
\* most one RAGEngine, every request is given that one engine, and no record a
\* finished request logged is overwritten in the record file by another engine.
C25_OneEngine ==
    /\ Cardinality(Engines) <= 1
    /\ \A a, b \in Threads :
            (threads[a].engine # "None" /\ threads[b].engine # "None") =>
                threads[a].engine = threads[b].engine
    /\ \A th \in Threads : threads[th].pc = "done" => Persisted(th)

====
